---- MODULE Spec2Model ----
(***************************************************************************)
(* order-total-report: a scheduled worker that loads store descriptors      *)
(* from the environment, fetches yesterday's orders of every store in       *)
(* parallel (Shopify GraphQL, Magento REST), and posts one report to a      *)
(* Zoho Cliq webhook.  Modelled from src/src/index.ts (latest revision).    *)
(*                                                                         *)
(* JavaScript strings are sequences of one-character strings.  JavaScript   *)
(* numbers that carry money are fixed-point integers in hundredths, wrapped *)
(* in a record that also represents NaN.                                    *)
(***************************************************************************)
EXTENDS Integers, Sequences, FiniteSets, TLC

----------------------------------------------------------------------------
(* Bounds of the model *)

\* longest environment string enumerated for the configuration loader
MaxLen == 3
\* Magento total_count values go up to (MaxHundreds + 1) * 100 - 1
MaxHundreds == 2
\* number of distinct order data sets a store API may serve
NumDatasets == 2

\* days before and after each anchor date at which scheduled() is invoked
DayWindow == 2

----------------------------------------------------------------------------
(* JavaScript values *)

\* an environment variable that is not set (env.X is undefined)
Undefined == <<"undefined">>

\* JS truthiness of an environment string: undefined and "" are falsy
Truthy(s) == s /= Undefined /\ s /= <<>>

IsSpace(c) == c = " "

\* String.prototype.split(','), on a sequence of characters
RECURSIVE SplitFrom(_, _, _)
SplitFrom(s, i, cur) ==
    IF i > Len(s) THEN <<cur>>
    ELSE IF s[i] = "," THEN <<cur>> \o SplitFrom(s, i + 1, <<>>)
    ELSE SplitFrom(s, i + 1, Append(cur, s[i]))

Split(s) == SplitFrom(s, 1, <<>>)

\* String.prototype.trim()
RECURSIVE TrimStart(_)
TrimStart(s) ==
    IF s /= <<>> /\ IsSpace(s[1]) THEN TrimStart(Tail(s)) ELSE s

RECURSIVE TrimEnd(_)
TrimEnd(s) ==
    IF s /= <<>> /\ IsSpace(s[Len(s)]) THEN TrimEnd(SubSeq(s, 1, Len(s) - 1)) ELSE s

\* mutant: the entries are used as split, untrimmed
TrimNothing(s) == s

Trim(s) == TrimEnd(TrimStart(s))

\* xs.map(x => x.trim())
TrimAll(xs) == [i \in 1..Len(xs) |-> Trim(xs[i])]

----------------------------------------------------------------------------
(* Configuration loader *)

ShopifyStore(domain, token) ==
    [type |-> "shopify", domain |-> domain, accessToken |-> token]

MagentoStore(domain, token) ==
    [type |-> "magento", domain |-> domain, accessToken |-> token]

\* the Shopify block of getStoresFromEnv: [ok, stores]; ok = FALSE is the throw
ShopifyStoresFromEnv(env) ==
    IF Truthy(env.SHOPIFY_DOMAINS) /\ Truthy(env.SHOPIFY_ACCESS_TOKENS)
    THEN LET shopifyDomains == TrimAll(Split(env.SHOPIFY_DOMAINS))
             shopifyTokens  == TrimAll(Split(env.SHOPIFY_ACCESS_TOKENS))
         IN  IF Len(shopifyDomains) /= Len(shopifyTokens)
             THEN [ok |-> FALSE, stores |-> <<>>]
             ELSE [ok |-> TRUE,
                   stores |-> [i \in 1..Len(shopifyDomains) |->
                                 ShopifyStore(shopifyDomains[i], shopifyTokens[i])]]
    ELSE [ok |-> TRUE, stores |-> <<>>]

\* mutant: the Magento variables are split and trimmed like the Shopify ones
MagentoStoresFromEnvSplit(env) ==
    IF Truthy(env.MAGENTO_DOMAINS) /\ Truthy(env.MAGENTO_ACCESS_TOKENS)
    THEN LET magentoDomains == TrimAll(Split(env.MAGENTO_DOMAINS))
             magentoTokens  == TrimAll(Split(env.MAGENTO_ACCESS_TOKENS))
         IN  IF Len(magentoDomains) /= Len(magentoTokens)
             THEN [ok |-> FALSE, stores |-> <<>>]
             ELSE [ok |-> TRUE,
                   stores |-> [i \in 1..Len(magentoDomains) |->
                                 MagentoStore(magentoDomains[i], magentoTokens[i])]]
    ELSE [ok |-> TRUE, stores |-> <<>>]

\* the Magento block of getStoresFromEnv: one descriptor, no split, no trim
MagentoStoresFromEnv(env) ==
    IF Truthy(env.MAGENTO_DOMAINS) /\ Truthy(env.MAGENTO_ACCESS_TOKENS)
    THEN LET magentoDomains == <<env.MAGENTO_DOMAINS>>
             magentoTokens  == <<env.MAGENTO_ACCESS_TOKENS>>
         IN  IF Len(magentoDomains) /= Len(magentoTokens)
             THEN [ok |-> FALSE, stores |-> <<>>]
             ELSE [ok |-> TRUE,
                   stores |-> [i \in 1..Len(magentoDomains) |->
                                 MagentoStore(magentoDomains[i], magentoTokens[i])]]
    ELSE [ok |-> TRUE, stores |-> <<>>]

getStoresFromEnv(env) ==
    LET s == ShopifyStoresFromEnv(env)
        m == MagentoStoresFromEnv(env)
    IN  IF ~s.ok \/ ~m.ok
        THEN [ok |-> FALSE, stores |-> <<>>]
        ELSE [ok |-> TRUE, stores |-> s.stores \o m.stores]

----------------------------------------------------------------------------
(* JavaScript numbers and parseFloat *)

\* hundredths per unit: money amounts are fixed-point integers
Scale == 10 * 10

\* a JS number: NaN, or a finite value in hundredths
NaN == [nan |-> TRUE, v |-> 0]

Num(v) == [nan |-> FALSE, v |-> v]

\* JS addition: NaN is absorbing (each operand is evaluated once, as bound
\* variables a and b)
JsAdd(x, y) ==
    CHOOSE sum \in {IF a.nan \/ b.nan THEN NaN ELSE Num(a.v + b.v) : a \in {x}, b \in {y}} : TRUE

\* isNaN(x)
isNaN(x) == x.nan

Digits == <<"0", "1", "2", "3", "4", "5", "6", "7", "8", "9">>

IsDigit(c) == \E d \in 1..10 : Digits[d] = c

DigitVal(c) == (CHOOSE d \in 1..10 : Digits[d] = c) - 1

\* number of consecutive decimal digits of s from position i on
RECURSIVE CountDigits(_, _)
CountDigits(s, i) ==
    IF i <= Len(s) /\ IsDigit(s[i]) THEN 1 + CountDigits(s, i + 1) ELSE 0

\* the decimal value of the n digits of s that start at position i
RECURSIVE DigitsValue(_, _, _)
DigitsValue(s, i, n) ==
    IF n = 0 THEN 0 ELSE DigitsValue(s, i, n - 1) * 10 + DigitVal(s[i + n - 1])

\* hundredths carried by the n fraction digits of s that start at position i
\* (exact for the model's values, whose fractions have at most two digits)
FracValue(s, i, n) ==
    (IF n >= 1 THEN DigitVal(s[i]) * 10 ELSE 0) + (IF n >= 2 THEN DigitVal(s[i + 1]) ELSE 0)

\* the one element of a singleton set: Only({e(x) : x \in {d}}) evaluates d
\* once and names its value x
Only(S) == CHOOSE x \in S : TRUE

\* the value of the decimal literal at the start of t, which has nInt integer
\* digits and nFrac fraction digits after an optional sign; NaN when it holds
\* no digit
DecimalLiteral(t, nInt, nFrac) ==
    LET signed == t /= <<>> /\ t[1] \in {"+", "-"}
        p      == IF signed THEN 2 ELSE 1
        mag    == DigitsValue(t, p, nInt) * Scale + FracValue(t, p + nInt + 1, nFrac)
    IN  IF nInt = 0 /\ nFrac = 0 THEN NaN
        ELSE Num(IF signed /\ t[1] = "-" THEN 0 - mag ELSE mag)

\* parseFloat of a string: skips leading white space, then reads the longest
\* prefix that is a decimal literal (sign, digits, '.', digits); NaN when that
\* prefix holds no digit.  Trailing characters are ignored, as in JavaScript.
parseFloat(str) ==
    LET Start(t)      == IF t /= <<>> /\ t[1] \in {"+", "-"} THEN 2 ELSE 1
        Dot(t, nInt)  == Start(t) + nInt <= Len(t) /\ t[Start(t) + nInt] = "."
        Frac(t, nInt) == IF Dot(t, nInt) THEN CountDigits(t, Start(t) + nInt + 1) ELSE 0
        Read(t)       ==
            Only({ Only({ DecimalLiteral(t, nInt, nFrac) : nFrac \in {Frac(t, nInt)} }) :
                   nInt \in {CountDigits(t, Start(t))} })
    IN  Only({ Read(t) : t \in {TrimStart(str)} })

\* the decimal digits of a natural number
RECURSIVE NatToString(_)
NatToString(n) ==
    IF n < 10 THEN <<Digits[n + 1]>>
    ELSE Append(NatToString(n \div 10), Digits[(n % 10) + 1])

\* Number.prototype.toString of a finite value in hundredths: the shortest
\* decimal, without trailing fraction zeros
NumberToString(x) ==
    LET a    == IF x.v < 0 THEN 0 - x.v ELSE x.v
        frac == a % Scale
        body == NatToString(a \div Scale) \o
                (IF frac = 0 THEN <<>>
                 ELSE IF frac % 10 = 0 THEN <<".", Digits[(frac \div 10) + 1]>>
                 ELSE <<".", Digits[(frac \div 10) + 1], Digits[(frac % 10) + 1]>>)
    IN  IF x.nan THEN <<"N", "a", "N">>
        ELSE IF x.v < 0 THEN <<"-">> \o body ELSE body

\* JSON values read from an API response: a missing field, a string, a number
JUndefined == [t |-> "undefined", s |-> <<>>, n |-> Num(0)]

JString(s) == [t |-> "string", s |-> s, n |-> Num(0)]

JNumber(v) == [t |-> "number", s |-> <<>>, n |-> Num(v)]

\* ToString(value), as parseFloat applies it to its argument
JsToString(j) ==
    IF j.t = "string" THEN j.s
    ELSE IF j.t = "number" THEN NumberToString(j.n)
    ELSE <<"u", "n", "d", "e", "f", "i", "n", "e", "d">>

\* JS truthiness of a JSON value
JTruthy(j) ==
    IF j.t = "string" THEN j.s /= <<>>
    ELSE IF j.t = "number" THEN ~j.n.nan /\ j.n.v /= 0
    ELSE FALSE

\* value || fallback
OrElse(j, fallback) == IF JTruthy(j) THEN j ELSE fallback

----------------------------------------------------------------------------
(* JavaScript Date: time values, calendar fields, toISOString *)

MsPerDay == 24 * 60 * 60 * 1000

\* a time value: days since 1970-01-01 and milliseconds within that day (the
\* pair stands for day * msPerDay + ms, which exceeds the model's integers)
Instant(day, ms) == [day |-> day + (ms \div MsPerDay), ms |-> ms % MsPerDay]

\* mutant: the time value is left as it was
AddMsForgotten(t, delta) == t

\* date.setTime(date.getTime() + delta)
AddMs(t, delta) == Instant(t.day, t.ms + delta)

DaysInYear(y) ==
    IF y % 4 /= 0 THEN 365
    ELSE IF y % 100 /= 0 THEN 366
    ELSE IF y % 400 /= 0 THEN 365
    ELSE 366

\* the day number of January 1st of year y
DayFromYear(y) ==
    365 * (y - 1970) + ((y - 1969) \div 4) - ((y - 1901) \div 100) + ((y - 1601) \div 400)

\* the year a day number falls in
YearFromDay(day) ==
    CHOOSE y \in (1970 + (day \div 366))..(1970 + (day \div 365)) :
        DayFromYear(y) <= day /\ day < DayFromYear(y + 1)

\* the day within the year at which each month starts, and the year's length
MonthStarts(y) ==
    LET leap == DaysInYear(y) - 365
    IN  <<0, 31, 59 + leap, 90 + leap, 120 + leap, 151 + leap, 181 + leap,
          212 + leap, 243 + leap, 273 + leap, 304 + leap, 334 + leap, 365 + leap>>

\* date.getUTCFullYear()
getUTCFullYear(t) == YearFromDay(t.day)

\* date.getUTCMonth(): 0 is January
getUTCMonth(t) ==
    Only({ CHOOSE m \in 0..11 :
               /\ MonthStarts(y)[m + 1] <= t.day - DayFromYear(y)
               /\ t.day - DayFromYear(y) < MonthStarts(y)[m + 2] :
           y \in {YearFromDay(t.day)} })

\* date.getUTCDate(): the day of the month, from 1
getUTCDate(t) ==
    Only({ t.day - DayFromYear(y) - MonthStarts(y)[getUTCMonth(t) + 1] + 1 :
           y \in {YearFromDay(t.day)} })

\* the day number of a year, a month (any integer from 0 on) and a day of
\* the month (any integer, days before the 1st or after the month's end
\* counting on into the neighbouring months)
MakeDay(year, month, date) ==
    Only({ DayFromYear(y) + MonthStarts(y)[(month % 12) + 1] + date - 1 :
           y \in {year + (month \div 12)} })

\* Date.UTC(year, month, day, hours, minutes, seconds, ms)
DateUTC(year, month, day, hours, minutes, seconds, ms) ==
    Instant(MakeDay(year, month, day),
            ((hours * 60 + minutes) * 60 + seconds) * 1000 + ms)

\* mutant: the day of the month is left as it was
setUTCDateForgotten(t, date) == t

\* date.setUTCDate(date): the time within the day is kept
setUTCDate(t, date) ==
    Instant(MakeDay(getUTCFullYear(t), getUTCMonth(t), date), t.ms)

\* the decimal digits of n, padded with zeros to w characters
RECURSIVE Pad(_, _)
Pad(n, w) ==
    IF w = 0 THEN <<>> ELSE Append(Pad(n \div 10, w - 1), Digits[(n % 10) + 1])

\* date.toISOString(): YYYY-MM-DDTHH:mm:ss.sssZ
toISOString(t) ==
    Pad(getUTCFullYear(t), 4) \o <<"-">> \o Pad(getUTCMonth(t) + 1, 2) \o <<"-">> \o
    Pad(getUTCDate(t), 2) \o <<"T">> \o
    Pad(t.ms \div 3600000, 2) \o <<":">> \o Pad((t.ms \div 60000) % 60, 2) \o <<":">> \o
    Pad((t.ms \div 1000) % 60, 2) \o <<".">> \o Pad(t.ms % 1000, 3) \o <<"Z">>

\* getYesterdayPST(), called at the instant now
getYesterdayPST(now) ==
    LET Range(year, month, day) ==
            [start |-> toISOString(DateUTC(year, month, day, 8, 0, 0, 0)),
             end   |-> toISOString(DateUTC(year, month, day + 1, 7, 59, 59, 999))]
        Yesterday(currentPST) == setUTCDate(currentPST, getUTCDate(currentPST) - 1)
    IN  Only({ Range(getUTCFullYear(yesterdayPST), getUTCMonth(yesterdayPST),
                     getUTCDate(yesterdayPST)) :
               yesterdayPST \in {Yesterday(AddMs(now, (0 - 8) * 60 * 60 * 1000))} })

\* new Date(date) of a string in the format of toISOString
DateParse(date) ==
    DateUTC(DigitsValue(date, 1, 4), DigitsValue(date, 6, 2) - 1, DigitsValue(date, 9, 2),
            DigitsValue(date, 12, 2), DigitsValue(date, 15, 2), DigitsValue(date, 18, 2),
            DigitsValue(date, 21, 3))

\* String(n).padStart(2, '0')
PadStart2(n) == IF n < 10 THEN <<"0">> \o NatToString(n) ELSE NatToString(n)

\* formatDate of fetchMagentoOrdersPage: the UTC calendar date of the
\* timestamp, then 23:59:59 for an end date and 00:00:00 otherwise
formatDate(date, isEndDate) ==
    Only({ NatToString(getUTCFullYear(d)) \o <<"-">> \o PadStart2(getUTCMonth(d) + 1) \o
           <<"-">> \o PadStart2(getUTCDate(d)) \o <<" ">> \o
           (IF isEndDate THEN <<"2", "3", ":", "5", "9", ":", "5", "9">>
            ELSE <<"0", "0", ":", "0", "0", ":", "0", "0">>) :
           d \in {DateParse(date)} })

\* mutant: the upper bound is formatted from dateRange.end
MagentoFilterFromEnd(range) ==
    [startDate |-> formatDate(range.start, FALSE),
     endDate   |-> formatDate(range.end, TRUE)]

\* the created_at bounds of a Magento page request: startDate (gteq) and
\* endDate (lteq) of the search criteria
MagentoFilter(range) ==
    [startDate |-> formatDate(range.start, FALSE),
     endDate   |-> formatDate(range.start, TRUE)]

----------------------------------------------------------------------------
(* The store metrics map: a JS object, as its entries in insertion order *)

ZeroMetrics == [orderCount |-> 0, totalAmount |-> Num(0)]

MapKeys(m) == {m[k].key : k \in 1..Len(m)}

MapHas(m, key) == key \in MapKeys(m)

MapGet(m, key) == m[CHOOSE k \in 1..Len(m) : m[k].key = key].value

\* m[key] = value: an existing key keeps its place, a new key goes last
MapSet(m, key, value) ==
    IF MapHas(m, key)
    THEN [k \in 1..Len(m) |-> IF m[k].key = key THEN [key |-> key, value |-> value] ELSE m[k]]
    ELSE Append(m, [key |-> key, value |-> value])

----------------------------------------------------------------------------
(* sendToCliq: the report text.  A character is a one-character string; the
   three emoji are written by their code points. *)

\* const domainName = { ... }
domainName ==
    << [key |-> <<"e", "l", "i", "q", "u", "i", "d", "-", "c", "o", "m">>,
        alias |-> <<"e", "l", "i", "q", "u", "i", "d", ".", "c", "o", "m">>],
       [key |-> <<"M", "i", "s", "t", "H", "u", "b">>,
        alias |-> <<"m", "i", "s", "t", "h", "u", "b", ".", "c", "o", "m">>],
       [key |-> <<"e", "j", "u", "i", "c", "e", "s", "-", "c", "o">>,
        alias |-> <<"e", "j", "u", "i", "c", "e", "s", ".", "c", "o">>],
       [key |-> <<"e", "j", "u", "i", "c", "e", "s">>,
        alias |-> <<"e", "j", "u", "i", "c", "e", "s", ".", "c", "o", "m">>],
       [key |-> <<"y", "a", "m", "i", "v", "a", "p", "o", "r">>,
        alias |-> <<"y", "a", "m", "i", "v", "a", "p", "o", "r">>],
       [key |-> <<"d", "e", "a", "l", "s", "-", "3", "0", "5">>,
        alias |-> <<"a", "l", "o", "h", "a", "s", "u", "n", "v", "a", "p", "o", "r", ".", "c", "o", "m">>],
       [key |-> <<"c", "a", "2", "b", "b", "f">>,
        alias |-> <<"r", "o", "d", "m", "a", "n", "9", "k", ".", "c", "o", "m">>] >>

\* mutant: the table is not consulted
DisplayNameRaw(domain) == domain

\* domainName[domain] || domain
DisplayName(domain) ==
    IF \E k \in 1..Len(domainName) : domainName[k].key = domain /\ domainName[k].alias /= <<>>
    THEN domainName[CHOOSE k \in 1..Len(domainName) : domainName[k].key = domain].alias
    ELSE domain

\* Object.values(storeData).reduce((sum, metrics) => sum + metrics.orderCount, 0)
RECURSIVE TotalOrders(_, _)
TotalOrders(storeData, n) ==
    IF n = 0 THEN 0 ELSE TotalOrders(storeData, n - 1) + storeData[n].value.orderCount

\* one entry of the report: its display name, a colon, and its order count
EntryText(entry) ==
    DisplayName(entry.key) \o <<":", "\n">> \o
    <<"U+1F4E6">> \o <<" ", "O", "r", "d", "e", "r", "s", ":", " ">> \o
    NatToString(entry.value.orderCount) \o <<"\n">>

\* Object.entries(storeData).map(...).join('\n\n'), over the first n entries
RECURSIVE EntriesText(_, _)
EntriesText(storeData, n) ==
    IF n = 0 THEN <<>>
    ELSE IF n = 1 THEN EntryText(storeData[1])
    ELSE EntriesText(storeData, n - 1) \o <<"\n", "\n">> \o EntryText(storeData[n])

\* message.text
MessageText(storeData, date) ==
    <<"U+1F4CA">> \o <<" ", "S", "a", "l", "e", "s", " ", "R", "e", "p", "o", "r", "t", " ", "f", "o", "r", " ">> \o date \o <<"\n", "\n">> \o
    EntriesText(storeData, Len(storeData)) \o
    <<"\n", "\n", "U+1F4C8">> \o <<" ", "S", "u", "m", "m", "a", "r", "y", ":", "\n">> \o
    <<"T", "o", "t", "a", "l", " ", "O", "r", "d", "e", "r", "s", ":", " ">> \o
    NatToString(TotalOrders(storeData, Len(storeData))) \o <<"\n">>

\* new Date(dateRange.start).toLocaleDateString("en-US", { timeZone:
\* "America/Los_Angeles", year: 'numeric', month: '2-digit', day: '2-digit' }):
\* MM/DD/YYYY.  dateRange.start is 08:00 UTC of a day, which is midnight or
\* 01:00 of the same calendar day in Los Angeles, so the fields are its own.
DateLabel(start) ==
    SubSeq(start, 6, 7) \o <<"/">> \o SubSeq(start, 9, 10) \o <<"/">> \o SubSeq(start, 1, 4)

----------------------------------------------------------------------------
(* The store APIs, as far as the fetchers read their responses *)

MAX_PAGES == 20

PageSize == 100

\* shopMoney.amount values a Shopify store serves (Decimal scalars)
ShopifyAmounts ==
    << <<"1", "0", ".", "5", "0">>, <<"5", ".", "2", "5">>, <<"0">> >>

\* data.data.orders.edges of the page that follows cursor c (0: no cursor) in
\* data set ds: zero to two edges, by position
ShopifyEdges(ds, c) ==
    [j \in 1..((ds + c) % 3) |->
        [amount |-> ShopifyAmounts[((ds + c + j) % Len(ShopifyAmounts)) + 1]]]

\* pageInfo.endCursor of the page that follows cursor c
ShopifyEndCursor(c) == c + 1

\* grand_total values a Magento store serves: strings, numbers, missing
MagentoGrandTotals ==
    << JString(<<"2", "0", ".", "0", "0">>),
       JUndefined,
       JString(<<"n", "/", "a">>),
       JNumber(525),
       JString(<<"1", "2", "a", "b">>),
       JNumber(0),
       JString(<<>>),
       JString(<<"7", ".", "5">>) >>

\* data.items of page number page in data set ds: absent, or two or three
\* items read off MagentoGrandTotals
MagentoItems(ds, page) ==
    IF (2 * ds + page) % 5 = 0
    THEN [present |-> FALSE, list |-> <<>>]
    ELSE [present |-> TRUE,
          list |-> [j \in 1..(3 - ((2 * ds + page) % 3)) |->
                      [grand_total |->
                          MagentoGrandTotals[((2 * (ds - 1) + 3 * (page - 1) + j - 1)
                                                 % Len(MagentoGrandTotals)) + 1]]]]

\* data.total_count values of page 1: absent, or a count
TotalCounts ==
    {[present |-> FALSE, n |-> 0]} \cup
    {[present |-> TRUE, n |-> h * PageSize + r] :
        h \in 0..MaxHundreds, r \in {0, 1, PageSize \div 2, PageSize - 1}}

\* the ways a page request fails
ShopifyFailures == {"RequestFailed", "GraphQLError"}

MagentoFailures == {"RequestFailed"}

----------------------------------------------------------------------------
(* The fetchers' pure parts *)

\* mutant: the cap is tested with <=
ShopifyLoopContinuesInclusive(hasNextPage, pageCount) ==
    hasNextPage /\ pageCount <= MAX_PAGES

\* while (hasNextPage && pageCount < MAX_PAGES)
ShopifyLoopContinues(hasNextPage, pageCount) ==
    hasNextPage /\ pageCount < MAX_PAGES

\* allOrders.reduce((sum, edge) => sum + parseFloat(edge...amount), 0)
RECURSIVE ShopifyReduce(_, _)
ShopifyReduce(allOrders, n) ==
    IF n = 0 THEN Num(0)
    ELSE JsAdd(ShopifyReduce(allOrders, n - 1), parseFloat(allOrders[n].amount))

ShopifyMetrics(allOrders) ==
    [orderCount  |-> Len(allOrders),
     totalAmount |-> ShopifyReduce(allOrders, Len(allOrders))]

\* firstPage.total_count || 0
MagentoTotalItems(total_count) ==
    IF total_count.present /\ total_count.n /= 0 THEN total_count.n ELSE 0

\* mutant: the page count is rounded down
MagentoTotalPagesFloor(totalItems) == totalItems \div PageSize

\* Math.ceil(totalItems / 100)
MagentoTotalPages(totalItems) ==
    (totalItems \div PageSize) + (IF totalItems % PageSize = 0 THEN 0 ELSE 1)

\* mutant: the parsed value is added without the isNaN test
MagentoGrandTotalUnguarded(order) ==
    parseFloat(JsToString(OrElse(order.grand_total, JString(<<"0">>))))

\* parseFloat(order.grand_total || '0'), NaN replaced by 0
MagentoGrandTotal(order) ==
    LET grandTotal == parseFloat(JsToString(OrElse(order.grand_total, JString(<<"0">>))))
    IN  IF isNaN(grandTotal) THEN Num(0) ELSE grandTotal

RECURSIVE MagentoReduce(_, _)
MagentoReduce(allOrders, n) ==
    IF n = 0 THEN Num(0)
    ELSE JsAdd(MagentoReduce(allOrders, n - 1), MagentoGrandTotal(allOrders[n]))

MagentoMetrics(allOrders) ==
    [orderCount  |-> Len(allOrders),
     totalAmount |-> MagentoReduce(allOrders, Len(allOrders))]

----------------------------------------------------------------------------
(* State of one scheduled() invocation *)

VARIABLES
    env,           \* the Environment record passed to scheduled()
    now,           \* the clock when scheduled() is invoked: what new Date() reads
    dateRange,     \* const dateRange = await getYesterdayPST()
    dataset,       \* which order data the store APIs serve during this run
    sched,         \* where scheduled() is: start, fetching, sending, done
    stores,        \* const stores = getStoresFromEnv(env)
    tasks,         \* one record per store: the locals of its fetch, and its history
    storeMetrics,  \* const storeMetrics = {}
    webhook,       \* the POSTs made to the Cliq webhook, and the map they were built from
    logged,        \* what console.error has been called for
    configError,   \* getStoresFromEnv threw in this invocation
    propagated     \* the promise scheduled() returned was rejected

vars == <<env, now, dateRange, dataset, sched, stores, tasks, storeMetrics, webhook,
          logged, configError, propagated>>

Env(sd, st, md, mt) ==
    [SHOPIFY_DOMAINS |-> sd, SHOPIFY_ACCESS_TOKENS |-> st,
     MAGENTO_DOMAINS |-> md, MAGENTO_ACCESS_TOKENS |-> mt]

\* the environments a run is started with: no store, one store of either
\* platform, two Shopify stores (distinct, one of them a key of domainName,
\* and sharing a domain), one store of each platform, and a domain list longer
\* than the token list
RunEnvs ==
    { Env(Undefined, Undefined, Undefined, Undefined),
      Env(<<"a">>, <<"t">>, Undefined, Undefined),
      Env(Undefined, Undefined, <<"m">>, <<"k">>),
      Env(<<"e", "j", "u", "i", "c", "e", "s", ",", "b">>, <<"t", ",", "u">>,
          Undefined, Undefined),
      Env(<<"a", ",", " ", "a">>, <<"t", ",", "u">>, Undefined, Undefined),
      Env(<<"a">>, <<"t">>, <<"m">>, <<"k">>),
      Env(<<"a", ",", "b">>, <<"t">>, <<"m">>, <<"k">>) }

\* the instant 2024-03-15T10:00:00.000Z
RunInstant == Instant(19797, 10 * 60 * 60 * 1000)

Idle ==
    /\ sched = "start"
    /\ dateRange = [start |-> <<>>, end |-> <<>>]
    /\ stores = <<>>
    /\ tasks = <<>>
    /\ storeMetrics = <<>>
    /\ webhook = [posts |-> 0, storeData |-> <<>>, text |-> <<>>, answer |-> "none"]
    /\ logged = {}
    /\ configError = FALSE
    /\ propagated = FALSE

Init == env \in RunEnvs /\ now = RunInstant /\ dataset \in 1..NumDatasets /\ Idle

StoreIds == 1..Len(stores)

Settled(i) == tasks[i].pc \in {"returned", "threw"}

----------------------------------------------------------------------------
(* scheduled(): the per-store task, and the top-level catch *)

\* mutant: the entry is keyed by the access token
StoreTaskSuccessByToken(map, store, metrics) == MapSet(map, store.accessToken, metrics)

\* storeMetrics[store.domain] = await fetch...Orders(store, dateRange)
StoreTaskSuccess(map, store, metrics) == MapSet(map, store.domain, metrics)

\* mutant: the catch logs but writes no entry
StoreTaskCatchNoEntry(map, store) == map

\* catch (error) { ...; storeMetrics[store.domain] = { orderCount: 0, totalAmount: 0 } }
StoreTaskCatch(map, store) == MapSet(map, store.domain, ZeroMetrics)

\* mutant: the top-level catch logs and throws again
WorkerCatchThrowsAgain == TRUE

\* catch (error) { console.error('Worker execution failed:', error) }: the
\* error is logged and not thrown again
WorkerCatchRethrows == FALSE

\* the first page request of a store's fetch, issued when the task is created;
\* trace is the order in which the fetch issued requests, got responses or
\* failures and began pauses, warned says whether console.warn was called,
\* filters holds the created_at bounds of each Magento page request; the
\* fetch is called with the range that scheduled() has just computed
NewTask(store) ==
    [pc          |-> "fetch",
     hasNextPage |-> TRUE,
     cursor      |-> 0,
     pageCount   |-> 0,
     page        |-> 1,
     totalPages  |-> 1,
     allOrders   |-> <<>>,
     requests    |-> IF store.type = "shopify" THEN <<0>> ELSE <<1>>,
     received    |-> <<>>,
     pageInfos   |-> <<>>,
     total_count |-> [present |-> FALSE, n |-> 0],
     metrics     |-> ZeroMetrics,
     error       |-> "none",
     trace       |-> <<"request">>,
     warned      |-> FALSE,
     filters     |-> IF store.type = "shopify" THEN <<>>
                     ELSE <<MagentoFilter(dateRange')>>]

\* the task of store i goes on with the locals next (named t, so that they are
\* worked out once): when its fetch returned, its entry of the map is written;
\* when its fetch threw, the task's catch logs and writes the zero entry
\* (fetchMagentoOrders logs too, before it throws again)
TaskMoves(i, next) ==
    \E t \in {next} :
        /\ tasks' = [tasks EXCEPT ![i] = t]
        /\ storeMetrics' =
             IF t.pc = "returned" THEN StoreTaskSuccess(storeMetrics, stores[i], t.metrics)
             ELSE IF t.pc = "threw" THEN StoreTaskCatch(storeMetrics, stores[i])
             ELSE storeMetrics
        /\ logged' =
             IF t.pc = "threw"
             THEN logged \cup
                  {[by |-> "task", domain |-> stores[i].domain]} \cup
                  (IF stores[i].type = "magento"
                   THEN {[by |-> "fetchMagentoOrders", domain |-> stores[i].domain]}
                   ELSE {})
             ELSE logged
        /\ UNCHANGED <<env, now, dateRange, dataset, sched, stores, webhook, configError, propagated>>

\* mutant: a failed page request ends the fetch with the orders counted so far
PageThrowsKeepsPartial(t, kind) ==
    [t EXCEPT !.pc = "returned", !.error = kind, !.trace = Append(@, "failure"),
              !.metrics = [ZeroMetrics EXCEPT !.orderCount = Len(t.allOrders)]]

\* a page request of the fetch with locals t throws
PageThrows(t, kind) ==
    [t EXCEPT !.pc = "threw", !.error = kind, !.trace = Append(@, "failure")]

----------------------------------------------------------------------------
(* fetchShopifyOrders *)

\* if (pageCount >= MAX_PAGES) console.warn(...)
ShopifyWarns(pageCount) == pageCount >= MAX_PAGES

\* mutant: every page request is sent without a cursor
ShopifyLoopSameCursor(t) ==
    IF ShopifyLoopContinues(t.hasNextPage, t.pageCount)
    THEN [t EXCEPT !.pc = "fetch", !.requests = Append(@, 0),
                   !.trace = Append(@, "request")]
    ELSE [t EXCEPT !.pc = "returned", !.metrics = ShopifyMetrics(t.allOrders),
                   !.warned = ShopifyWarns(t.pageCount)]

\* the head of the while loop, reached with locals t: the next page request is
\* issued with the current cursor, or the loop ends, the warning is logged if
\* it applies and the metrics are returned
ShopifyLoop(t) ==
    IF ShopifyLoopContinues(t.hasNextPage, t.pageCount)
    THEN [t EXCEPT !.pc = "fetch", !.requests = Append(@, t.cursor),
                   !.trace = Append(@, "request")]
    ELSE [t EXCEPT !.pc = "returned", !.metrics = ShopifyMetrics(t.allOrders),
                   !.warned = ShopifyWarns(t.pageCount)]

\* mutant: a page's edges replace the ones accumulated so far
ShopifyPageReadKeepsLastPage(t, edges, hasNextPage) ==
    LET t1 == [t EXCEPT !.allOrders = edges,
                        !.hasNextPage = hasNextPage,
                        !.cursor = ShopifyEndCursor(t.cursor),
                        !.pageCount = @ + 1,
                        !.received = Append(@, edges),
                        !.pageInfos = Append(@, hasNextPage),
                        !.trace = Append(@, "response")]
    IN  IF hasNextPage
        THEN [t1 EXCEPT !.pc = "pause", !.trace = Append(@, "pause")]
        ELSE ShopifyLoop(t1)

\* the loop body after await fetchShopifyOrdersPage: the edges are appended,
\* pageInfo is read, pageCount grows; with hasNextPage the fetch pauses 500 ms,
\* without it the loop head is reached at once
ShopifyPageRead(t, edges, hasNextPage) ==
    LET t1 == [t EXCEPT !.allOrders = @ \o edges,
                        !.hasNextPage = hasNextPage,
                        !.cursor = ShopifyEndCursor(t.cursor),
                        !.pageCount = @ + 1,
                        !.received = Append(@, edges),
                        !.pageInfos = Append(@, hasNextPage),
                        !.trace = Append(@, "response")]
    IN  IF hasNextPage
        THEN [t1 EXCEPT !.pc = "pause", !.trace = Append(@, "pause")]
        ELSE ShopifyLoop(t1)

\* a page arrives
ShopifyPageArrives(i) ==
    /\ sched = "fetching"
    /\ stores[i].type = "shopify"
    /\ tasks[i].pc = "fetch"
    /\ \E hasNextPage \in BOOLEAN :
         TaskMoves(i, ShopifyPageRead(tasks[i], ShopifyEdges(dataset, tasks[i].cursor),
                                      hasNextPage))

\* the 500 ms pause after a page with hasNextPage is over
ShopifyPauseEnds(i) ==
    /\ sched = "fetching"
    /\ stores[i].type = "shopify"
    /\ tasks[i].pc = "pause"
    /\ TaskMoves(i, ShopifyLoop(tasks[i]))

\* fetchShopifyOrdersPage throws: a non-success status, or an errors field
ShopifyPageFails(i) ==
    /\ sched = "fetching"
    /\ stores[i].type = "shopify"
    /\ tasks[i].pc = "fetch"
    /\ \E kind \in ShopifyFailures : TaskMoves(i, PageThrows(tasks[i], kind))

----------------------------------------------------------------------------
(* fetchMagentoOrders *)

\* the head of the for loop, reached with locals t (page already set)
MagentoLoop(t) ==
    IF t.page <= t.totalPages
    THEN [t EXCEPT !.pc = "fetch", !.requests = Append(@, t.page),
                   !.trace = Append(@, "request"),
                   !.filters = Append(@, MagentoFilter(dateRange))]
    ELSE [t EXCEPT !.pc = "returned", !.metrics = MagentoMetrics(t.allOrders)]

\* after await of page 1: items (default []) and total_count (default 0) are
\* read, totalPages is computed, and the loop starts at page 2 without a pause
MagentoFirstPageRead(t, items, total_count) ==
    MagentoLoop([t EXCEPT !.allOrders = IF items.present THEN items.list ELSE <<>>,
                          !.totalPages = MagentoTotalPages(MagentoTotalItems(total_count)),
                          !.page = 2,
                          !.received = Append(@, items.list),
                          !.total_count = total_count,
                          !.trace = Append(@, "response")])

\* the loop body after await of a later page: its items, if any, are appended;
\* before the last page the fetch pauses 500 ms, after it page++ and the loop
\* head is reached at once
MagentoNextPageRead(t, items) ==
    LET t1 == [t EXCEPT !.allOrders = IF items.present THEN @ \o items.list ELSE @,
                        !.received = Append(@, items.list),
                        !.trace = Append(@, "response")]
    IN  IF t.page < t.totalPages
        THEN [t1 EXCEPT !.pc = "pause", !.trace = Append(@, "pause")]
        ELSE MagentoLoop([t1 EXCEPT !.page = @ + 1])

\* page 1 arrives
MagentoFirstPageArrives(i) ==
    /\ sched = "fetching"
    /\ stores[i].type = "magento"
    /\ tasks[i].pc = "fetch"
    /\ tasks[i].page = 1
    /\ \E total_count \in TotalCounts :
         TaskMoves(i, MagentoFirstPageRead(tasks[i], MagentoItems(dataset, 1), total_count))

\* a later page arrives
MagentoNextPageArrives(i) ==
    /\ sched = "fetching"
    /\ stores[i].type = "magento"
    /\ tasks[i].pc = "fetch"
    /\ tasks[i].page >= 2
    /\ TaskMoves(i, MagentoNextPageRead(tasks[i], MagentoItems(dataset, tasks[i].page)))

\* the 500 ms pause between two later pages is over: page++, next request
MagentoPauseEnds(i) ==
    /\ sched = "fetching"
    /\ stores[i].type = "magento"
    /\ tasks[i].pc = "pause"
    /\ TaskMoves(i, MagentoLoop([tasks[i] EXCEPT !.page = @ + 1]))

\* fetchMagentoOrdersPage throws on a non-success status; fetchMagentoOrders
\* logs and throws again
MagentoPageFails(i) ==
    /\ sched = "fetching"
    /\ stores[i].type = "magento"
    /\ tasks[i].pc = "fetch"
    /\ \E kind \in MagentoFailures : TaskMoves(i, PageThrows(tasks[i], kind))

----------------------------------------------------------------------------
(* scheduled() and sendToCliq *)

\* the top-level catch: the error is logged, the invocation completes
WorkerCatch ==
    /\ logged' = logged \cup {[by |-> "worker", domain |-> <<>>]}
    /\ propagated' = WorkerCatchRethrows
    /\ sched' = "done"

\* mutant: a configuration error is logged and the run goes on with no store
AbortRunStillReports ==
    /\ configError' = TRUE
    /\ logged' = logged \cup {[by |-> "worker", domain |-> <<>>]}
    /\ sched' = "fetching"
    /\ UNCHANGED <<stores, tasks, storeMetrics, webhook, propagated>>

\* getStoresFromEnv threw: nothing was started, the catch ends the run
AbortRun ==
    /\ configError' = TRUE
    /\ WorkerCatch
    /\ UNCHANGED <<stores, tasks, storeMetrics, webhook>>

\* stores.map(async (store) => ...): every task runs to its first await, which
\* is the fetch of its first page
FanOut(loaded) ==
    /\ stores' = loaded
    /\ tasks' = [i \in 1..Len(loaded) |-> NewTask(loaded[i])]
    /\ sched' = "fetching"
    /\ UNCHANGED <<storeMetrics, webhook, logged, configError, propagated>>

\* scheduled() up to await Promise.all(...)
ScheduledStart ==
    /\ sched = "start"
    /\ dateRange' = getYesterdayPST(now)
    /\ LET r == getStoresFromEnv(env)
       IN  IF r.ok THEN FanOut(r.stores) ELSE AbortRun
    /\ UNCHANGED <<env, now, dataset>>

\* mutant: the join resumes as soon as one task has settled (Promise.race)
AnyTaskSettled == StoreIds = {} \/ \E i \in StoreIds : Settled(i)

\* await Promise.all(...) resumes once every task has settled (no task rejects)
AllTasksSettled == \A i \in StoreIds : Settled(i)

\* Promise.all has resolved: sendToCliq builds the report from storeMetrics
\* and POSTs it
SendReport ==
    /\ sched = "fetching"
    /\ AllTasksSettled
    /\ webhook' = [webhook EXCEPT !.posts = @ + 1,
                                  !.storeData = storeMetrics,
                                  !.text = MessageText(storeMetrics, DateLabel(dateRange.start))]
    /\ sched' = "sending"
    /\ UNCHANGED <<env, now, dateRange, dataset, stores, tasks, storeMetrics, logged,
                   configError, propagated>>

\* the webhook answers: with response.ok the run is over, otherwise sendToCliq
\* throws into the top-level catch
WebhookAnswers ==
    /\ sched = "sending"
    /\ \E ok \in BOOLEAN :
         /\ webhook' = [webhook EXCEPT !.answer = IF ok THEN "ok" ELSE "failed"]
         /\ IF ok
            THEN sched' = "done" /\ UNCHANGED <<logged, propagated>>
            ELSE WorkerCatch
    /\ UNCHANGED <<env, now, dateRange, dataset, stores, tasks, storeMetrics, configError>>

Next ==
    \/ ScheduledStart
    \/ \E i \in StoreIds : ShopifyPageArrives(i)
    \/ \E i \in StoreIds : ShopifyPauseEnds(i)
    \/ \E i \in StoreIds : ShopifyPageFails(i)
    \/ \E i \in StoreIds : MagentoFirstPageArrives(i)
    \/ \E i \in StoreIds : MagentoNextPageArrives(i)
    \/ \E i \in StoreIds : MagentoPauseEnds(i)
    \/ \E i \in StoreIds : MagentoPageFails(i)
    \/ SendReport
    \/ WebhookAnswers

Spec == Init /\ [][Next]_vars

\* the environments of the runs whose completion is checked: no store, one
\* store of either platform, one store of each platform side by side, and the
\* configuration error
FairEnvs ==
    { Env(Undefined, Undefined, Undefined, Undefined),
      Env(<<"a">>, <<"t">>, Undefined, Undefined),
      Env(Undefined, Undefined, <<"m">>, <<"k">>),
      Env(<<"a">>, <<"t">>, <<"m">>, <<"k">>),
      Env(<<"a", ",", "b">>, <<"t">>, <<"m">>, <<"k">>) }

FairInit == env \in FairEnvs /\ now = RunInstant /\ dataset \in 1..NumDatasets /\ Idle

\* every pending request is answered and every timer fires: the runtime's event
\* loop runs each continuation that is ready
FairSpec == FairInit /\ [][Next]_vars /\ WF_vars(Next)

----------------------------------------------------------------------------
(* The configuration loader on every short environment *)

\* the characters environment strings are made of
EnvChars == {"a", ",", " "}

\* all strings of length n over EnvChars
RECURSIVE StringsOfLen(_)
StringsOfLen(n) ==
    IF n = 0 THEN {<<>>}
    ELSE {Append(s, c) : s \in StringsOfLen(n - 1), c \in EnvChars}

EnvStrings == {Undefined} \cup UNION {StringsOfLen(n) : n \in 0..MaxLen}

MagentoEnvStrings == {Undefined, <<>>, <<"m">>, <<"m", ",", "n">>, <<" ", "m", " ">>}

ConfigInit ==
    /\ env \in {Env(sd, st, md, mt) : sd \in EnvStrings, st \in EnvStrings,
                                      md \in MagentoEnvStrings, mt \in MagentoEnvStrings}
    /\ now = RunInstant
    /\ dataset = 1
    /\ Idle

ConfigSpec == ConfigInit /\ [][ScheduledStart]_vars

----------------------------------------------------------------------------
(* getYesterdayPST at instants around month ends, year ends and leap days *)

\* day numbers of 2024-03-15, 2024-01-01, 2024-03-01, 2023-03-01, 2100-03-01,
\* 2000-03-01 and 2024-12-31
AnchorDays == {19797, 19723, 19783, 19417, 47541, 11017, 20088}

\* times of day: midnight, the last millisecond before 08:00, 08:00, 10:00 and
\* the last millisecond of the day
TimesOfDay ==
    {0, 8 * 60 * 60 * 1000 - 1, 8 * 60 * 60 * 1000, 10 * 60 * 60 * 1000, MsPerDay - 1}

Instants ==
    {Instant(a + k, ms) : a \in AnchorDays, k \in (0 - DayWindow)..DayWindow, ms \in TimesOfDay}

DateInit ==
    /\ env = Env(Undefined, Undefined, Undefined, Undefined)
    /\ now \in Instants
    /\ dataset = 1
    /\ Idle

DateSpec == DateInit /\ [][ScheduledStart]_vars

----------------------------------------------------------------------------
(* The run of a Shopify and a Magento store at instants around month, leap-day
   and year ends *)

FilterInstants ==
    {Instant(a, ms) : a \in AnchorDays, ms \in {8 * 60 * 60 * 1000 - 1, 8 * 60 * 60 * 1000}}

FilterInit ==
    /\ env = Env(<<"a">>, <<"t">>, <<"m">>, <<"k">>)
    /\ now \in FilterInstants
    /\ dataset = 1
    /\ Idle

FilterSpec == FilterInit /\ [][Next]_vars

----------------------------------------------------------------------------
(* Properties *)

\* Promise.all has resolved in this invocation
Joined == sched \in {"sending", "done"} /\ ~configError

\* what the fetch of store i ended with: the metrics it returned, or the zero
\* entry its task's catch writes
Outcome(i) == IF tasks[i].pc = "threw" THEN ZeroMetrics ELSE tasks[i].metrics

SameDomain(i) == {j \in StoreIds : stores[j].domain = stores[i].domain}

DistinctDomains == \A i \in StoreIds : SameDomain(i) = {i}

\* the fetch of store i was not cut short: a Shopify fetch that returned saw a
\* page without hasNextPage or fetched MAX_PAGES pages, a Magento fetch that
\* returned requested every page up to totalPages
RanToItsEnd(i) ==
    LET t == tasks[i]
    IN  /\ Len(t.received) = Len(t.requests)
        /\ IF stores[i].type = "shopify"
           THEN ~t.pageInfos[Len(t.pageInfos)] \/ Len(t.requests) = MAX_PAGES
           ELSE Len(t.requests) >= t.totalPages

\* C1 as stated: after the join, the entry of every store's domain is that
\* store's own outcome: the zero entry if its fetch threw, the metrics its
\* fetch returned otherwise.
C1_EveryStoreOwnOutcome ==
    Joined =>
        \A i \in StoreIds :
            /\ MapHas(storeMetrics, stores[i].domain)
            /\ MapGet(storeMetrics, stores[i].domain) = Outcome(i)

\* C1, amended: after the join, the entry of every store's domain is the
\* outcome of a store configured with that domain (the store's own outcome when
\* no other store shares its domain); a store whose sibling threw is never
\* stopped: while it is unsettled the run waits for it with its request or
\* pause pending, and once it returned its fetch had run to its end.
C1_FaultIsolation ==
    /\ Joined =>
         \A i \in StoreIds :
            /\ MapHas(storeMetrics, stores[i].domain)
            /\ \E j \in SameDomain(i) : MapGet(storeMetrics, stores[i].domain) = Outcome(j)
    /\ \A i \in StoreIds :
         (\E j \in StoreIds \ {i} : tasks[j].pc = "threw") =>
            /\ ~Settled(i) => sched = "fetching" /\ tasks[i].pc \in {"fetch", "pause"}
            /\ tasks[i].pc = "returned" => RanToItsEnd(i)

\* one store threw, and a sibling with another domain went on over several
\* pages and returned orders
C1_Witness ==
    /\ Joined
    /\ \E i, j \in StoreIds :
         /\ stores[i].domain /= stores[j].domain
         /\ tasks[i].pc = "threw"
         /\ tasks[j].pc = "returned"
         /\ Len(tasks[j].requests) >= 3
         /\ MapGet(storeMetrics, stores[i].domain) = ZeroMetrics
         /\ MapGet(storeMetrics, stores[j].domain).orderCount > 0

\* C2: when getStoresFromEnv succeeded, at most one webhook POST is ever
\* issued and a completed invocation has issued exactly one; the POST is
\* issued only once every store task has settled, from a map that has an entry
\* for the domain of every configured store; a non-success answer ends the run
\* without another POST.
C2_ExactlyOnePost ==
    ~configError =>
        /\ webhook.posts <= 1
        /\ sched = "done" => webhook.posts = 1
        /\ webhook.posts >= 1 =>
             /\ \A i \in StoreIds : Settled(i)
             /\ \A i \in StoreIds : MapHas(webhook.storeData, stores[i].domain)
             /\ webhook.storeData = storeMetrics
        /\ webhook.answer = "failed" => sched = "done" /\ webhook.posts = 1

\* a run with two stores, one of which threw, whose single POST was answered
\* with a non-success status
C2_Witness ==
    /\ sched = "done"
    /\ ~configError
    /\ Len(stores) = 2
    /\ \E i \in StoreIds : tasks[i].pc = "threw"
    /\ \E i \in StoreIds : tasks[i].pc = "returned" /\ Len(tasks[i].requests) >= 2
    /\ webhook.posts = 1
    /\ webhook.answer = "failed"

\* C3: scheduled() never raises: in every run nothing is ever propagated to
\* the caller, a store fetch that threw is logged by its task, a configuration
\* error and a failed delivery are logged by the top-level catch, and the
\* invocation reaches its completed state.
C3_NeverRaises ==
    /\ [](/\ ~propagated
          /\ \A i \in StoreIds :
               tasks[i].pc = "threw" => [by |-> "task", domain |-> stores[i].domain] \in logged
          /\ (configError \/ webhook.answer = "failed") =>
               sched = "done" /\ [by |-> "worker", domain |-> <<>>] \in logged)
    /\ <>(sched = "done")

\* each failure mode has completed: a store fetch threw and the delivery failed
C3_Witness ==
    /\ sched = "done"
    /\ ~propagated
    /\ webhook.answer = "failed"
    /\ \E i \in StoreIds : tasks[i].pc = "threw"
    /\ [by |-> "worker", domain |-> <<>>] \in logged

\* page requests issued so far in this invocation
RECURSIVE PageRequests(_)
PageRequests(n) ==
    IF n = 0 THEN 0 ELSE PageRequests(n - 1) + Len(tasks[n].requests)

\* the two Shopify lists of the environment differ in their number of entries
\* (one more comma in one than in the other)
C4_Mismatched ==
    /\ Truthy(env.SHOPIFY_DOMAINS) /\ Truthy(env.SHOPIFY_ACCESS_TOKENS)
    /\ Cardinality({k \in 1..Len(env.SHOPIFY_DOMAINS) : env.SHOPIFY_DOMAINS[k] = ","})
         /= Cardinality({k \in 1..Len(env.SHOPIFY_ACCESS_TOKENS) : env.SHOPIFY_ACCESS_TOKENS[k] = ","})

\* C4: when getStoresFromEnv throws the configuration error, no page request
\* and no webhook POST is issued in that invocation, which is over; and it
\* throws whenever the domain and token counts differ.
C4_ConfigErrorAborts ==
    /\ configError =>
         /\ PageRequests(Len(tasks)) = 0 /\ tasks = <<>>
         /\ webhook.posts = 0
         /\ sched = "done"
    /\ (C4_Mismatched /\ sched /= "start") => configError

\* a run aborted on two domains against one token
C4_Witness ==
    /\ configError
    /\ C4_Mismatched
    /\ sched = "done"

\* the map the outcomes determine when each store owns its key
C5_ExpectedEntry(d) == Outcome(CHOOSE i \in StoreIds : stores[i].domain = d)

\* C5 as stated: for every store list, the final map has exactly one entry
\* per configured store and is the one the stores' outcomes determine, whatever
\* the order in which the tasks settled.
C5_OneEntryPerStore ==
    Joined =>
        /\ Len(storeMetrics) = Len(stores)
        /\ \A i \in StoreIds :
             /\ MapHas(storeMetrics, stores[i].domain)
             /\ MapGet(storeMetrics, stores[i].domain) = C5_ExpectedEntry(stores[i].domain)

\* C5, amended: the final map has exactly one entry per distinct configured
\* domain and no other key; when the configured domains are pairwise distinct
\* it has exactly one entry per store and is the one the stores' outcomes
\* determine, whatever the order in which the tasks settled.
C5_DisjointKeys ==
    Joined =>
        /\ Len(storeMetrics) = Cardinality(MapKeys(storeMetrics))
        /\ MapKeys(storeMetrics) = {stores[i].domain : i \in StoreIds}
        /\ DistinctDomains =>
             /\ Len(storeMetrics) = Len(stores)
             /\ \A i \in StoreIds :
                  MapGet(storeMetrics, stores[i].domain) = C5_ExpectedEntry(stores[i].domain)

\* two stores with distinct domains settled in the order opposite to the
\* store list (the second store's entry was inserted first)
C5_Witness ==
    /\ Joined
    /\ Len(stores) = 2
    /\ DistinctDomains
    /\ storeMetrics[1].key = stores[2].domain
    /\ storeMetrics[2].key = stores[1].domain
    /\ storeMetrics[1].value /= storeMetrics[2].value

\* the entries of pages 1..n, in the order they were received
RECURSIVE Flatten(_, _)
Flatten(pages, n) ==
    IF n = 0 THEN <<>> ELSE Flatten(pages, n - 1) \o pages[n]

\* everything the fetch of store i has received
Received(i) == Flatten(tasks[i].received, Len(tasks[i].received))

\* what a shopMoney amount denotes, in hundredths
AmountValue(amount) ==
    CASE amount = <<"1", "0", ".", "5", "0">> -> 1050
      [] amount = <<"5", ".", "2", "5">>      -> 525
      [] amount = <<"0">>                     -> 0

\* the sum of the amounts of the first n edges
RECURSIVE EdgesTotal(_, _)
EdgesTotal(edges, n) ==
    IF n = 0 THEN 0 ELSE EdgesTotal(edges, n - 1) + AmountValue(edges[n].amount)

\* every page the Shopify fetch of store i has read so far had hasNextPage
AllHaveNextPage(i) ==
    \A k \in 1..Len(tasks[i].pageInfos) : tasks[i].pageInfos[k]

\* C6: a Shopify fetch issues at most 20 page requests; when every page
\* answered hasNextPage = true, the fetch issues no request after the 20th
\* page and does not throw, it returns only after exactly 20 requests, and the
\* metrics it returns are the count and the sum of the edges of those 20 pages.
C6_ShopifyPageCap ==
    \A i \in StoreIds :
        stores[i].type = "shopify" =>
            /\ Len(tasks[i].requests) <= 20
            /\ (AllHaveNextPage(i) /\ Len(tasks[i].pageInfos) = 20) =>
                 /\ tasks[i].pc \in {"pause", "returned"}
                 /\ Len(tasks[i].requests) = 20
            /\ (AllHaveNextPage(i) /\ tasks[i].pc = "returned") =>
                 /\ Len(tasks[i].requests) = 20
                 /\ Len(tasks[i].received) = 20
                 /\ tasks[i].metrics.orderCount = Len(Received(i))
                 /\ tasks[i].metrics.totalAmount =
                      Num(EdgesTotal(Received(i), Len(Received(i))))

\* a Shopify fetch returned orders after 20 pages that all had hasNextPage
C6_Witness ==
    \E i \in StoreIds :
        /\ stores[i].type = "shopify"
        /\ tasks[i].pc = "returned"
        /\ AllHaveNextPage(i)
        /\ Len(tasks[i].requests) = 20
        /\ tasks[i].metrics.orderCount > 0

\* C7: when a Shopify fetch returns, the pages it received are the pages of
\* the cursors 0, 1, 2, ... it requested, one page per request, orderCount is
\* the number of edges of those pages and totalAmount is the sum of their
\* shopMoney amounts.
C7_ShopifyAggregation ==
    \A i \in StoreIds :
        (stores[i].type = "shopify" /\ tasks[i].pc = "returned") =>
            /\ Len(tasks[i].received) = Len(tasks[i].requests)
            /\ \A k \in 1..Len(tasks[i].requests) :
                 /\ tasks[i].requests[k] = k - 1
                 /\ tasks[i].received[k] = ShopifyEdges(dataset, k - 1)
            /\ tasks[i].metrics.orderCount = Len(Received(i))
            /\ tasks[i].metrics.totalAmount =
                 Num(EdgesTotal(Received(i), Len(Received(i))))

\* a Shopify fetch returned after four pages, two of them with two edges
C7_Witness ==
    \E i \in StoreIds :
        /\ stores[i].type = "shopify"
        /\ tasks[i].pc = "returned"
        /\ Len(tasks[i].received) = 4
        /\ Cardinality({k \in 1..4 : Len(tasks[i].received[k]) = 2}) = 2
        /\ tasks[i].metrics.orderCount >= 4
        /\ tasks[i].metrics.totalAmount.v > 1050

\* the least k with k * 100 >= n
Ceiling100(n) == CHOOSE k \in 0..n : k * 100 >= n /\ (k - 1) * 100 < n

\* C8: the Magento fetch requests the pages 1, 2, ... in ascending order, each
\* once; once page 1 reported total_count >= 1, totalPages is
\* ceiling(total_count / 100), no page beyond totalPages is requested and the
\* fetch returns after exactly totalPages requests; when total_count is 0 or
\* absent the fetch returns after the page-1 request alone.
C8_MagentoPageCount ==
    \A i \in StoreIds :
        stores[i].type = "magento" =>
            /\ \A k \in 1..Len(tasks[i].requests) : tasks[i].requests[k] = k
            /\ (Len(tasks[i].received) >= 1 /\ tasks[i].total_count.present
                  /\ tasks[i].total_count.n >= 1) =>
                 /\ tasks[i].totalPages = Ceiling100(tasks[i].total_count.n)
                 /\ Len(tasks[i].requests) <= tasks[i].totalPages
                 /\ tasks[i].pc = "returned" =>
                      Len(tasks[i].requests) = tasks[i].totalPages
            /\ (Len(tasks[i].received) >= 1
                  /\ (~tasks[i].total_count.present \/ tasks[i].total_count.n = 0)) =>
                 /\ tasks[i].pc = "returned"
                 /\ tasks[i].requests = <<1>>

\* total_count = 250: the fetch returned after requesting pages 1, 2, 3
C8_Witness ==
    \E i \in StoreIds :
        /\ stores[i].type = "magento"
        /\ tasks[i].pc = "returned"
        /\ tasks[i].total_count.present /\ tasks[i].total_count.n = 250
        /\ tasks[i].totalPages = 3
        /\ tasks[i].requests = <<1, 2, 3>>

\* a string that is a decimal number from its first to its last character
IsDecimal(str) ==
    /\ \A p \in 1..Len(str) : IsDigit(str[p]) \/ str[p] = "."
    /\ \E p \in 1..Len(str) : IsDigit(str[p])
    /\ Cardinality({p \in 1..Len(str) : str[p] = "."}) <= 1

\* the decimal number a string starts with, in hundredths; 0 when it starts
\* with none
LeadingNumber(str) ==
    CASE str = <<"2", "0", ".", "0", "0">> -> 2000
      [] str = <<"7", ".", "5">>           -> 750
      [] str = <<"1", "2", "a", "b">>      -> 1200
      [] OTHER                             -> 0

\* what a numeric grand_total is worth, every other grand_total counting 0
NumericValue(g) ==
    CASE g.t = "number"                    -> g.n.v
      [] g.t = "string" /\ IsDecimal(g.s)  -> LeadingNumber(g.s)
      [] OTHER                             -> 0

\* what a grand_total is worth when a string counts for the number it starts
\* with
LeadingValue(g) ==
    CASE g.t = "number" -> g.n.v
      [] g.t = "string" -> LeadingNumber(g.s)
      [] OTHER          -> 0

RECURSIVE NumericTotal(_, _)
NumericTotal(items, n) ==
    IF n = 0 THEN 0 ELSE NumericTotal(items, n - 1) + NumericValue(items[n].grand_total)

RECURSIVE LeadingTotal(_, _)
LeadingTotal(items, n) ==
    IF n = 0 THEN 0 ELSE LeadingTotal(items, n - 1) + LeadingValue(items[n].grand_total)

\* C9 as stated: when a Magento fetch returns, orderCount is the number of
\* items of the pages it received and totalAmount is the sum of the numeric
\* grand_total values, every missing or non-numeric grand_total counting 0.
C9_NonNumericCountsZero ==
    \A i \in StoreIds :
        (stores[i].type = "magento" /\ tasks[i].pc = "returned") =>
            /\ tasks[i].metrics.orderCount = Len(Received(i))
            /\ tasks[i].metrics.totalAmount =
                 Num(NumericTotal(Received(i), Len(Received(i))))

\* C9, amended: when a Magento fetch returns, orderCount is the number of
\* items of the pages it received (whatever total_count said) and totalAmount
\* is the sum over those items of: the grand_total when it is a number, the
\* decimal number a string grand_total starts with (characters after it are
\* ignored), and 0 when the grand_total is missing, empty or starts with no
\* number.
C9_MagentoAggregation ==
    \A i \in StoreIds :
        (stores[i].type = "magento" /\ tasks[i].pc = "returned") =>
            /\ Len(tasks[i].received) = Len(tasks[i].requests)
            /\ \A k \in 1..Len(tasks[i].received) :
                 tasks[i].received[k] = MagentoItems(dataset, k).list
            /\ tasks[i].metrics.orderCount = Len(Received(i))
            /\ tasks[i].metrics.totalAmount =
                 Num(LeadingTotal(Received(i), Len(Received(i))))

\* a Magento fetch returned five items, "20.00", a missing value, "n/a", 5.25
\* and "12ab", after a total_count of 101 or more: 20.00 + 5.25 + 12
C9_Witness ==
    \E i \in StoreIds :
        /\ stores[i].type = "magento"
        /\ tasks[i].pc = "returned"
        /\ tasks[i].total_count.n > 100
        /\ Len(Received(i)) = 5
        /\ \E k \in 1..5 : Received(i)[k].grand_total = JString(<<"1", "2", "a", "b">>)
        /\ \E k \in 1..5 : Received(i)[k].grand_total = JUndefined
        /\ tasks[i].metrics = [orderCount |-> 5, totalAmount |-> Num(3725)]

\* the positions of the commas of a string
CommaPositions(str) == {p \in 1..Len(str) : str[p] = ","}

\* the number of comma-separated entries of a string
EntryCount(str) == Cardinality(CommaPositions(str)) + 1

\* the position of the k-th comma of a string
NthComma(str, k) ==
    CHOOSE p \in CommaPositions(str) :
        Cardinality({q \in CommaPositions(str) : q < p}) = k - 1

\* the k-th comma-separated entry: the characters between the commas around it
Entry(str, k) ==
    SubSeq(str,
           IF k = 1 THEN 1 ELSE NthComma(str, k - 1) + 1,
           IF k = EntryCount(str) THEN Len(str) ELSE NthComma(str, k) - 1)

\* an entry without the white space around it: from its first to its last
\* character that is no white space
Trimmed(e) ==
    LET inked == {p \in 1..Len(e) : e[p] /= " "}
    IN  IF inked = {} THEN <<>>
        ELSE SubSeq(e, CHOOSE p \in inked : \A q \in inked : p <= q,
                       CHOOSE p \in inked : \A q \in inked : q <= p)

IsShopify(store) == store.type = "shopify"

\* the Shopify descriptors of the loaded store list
ShopifyDescriptors == SelectSeq(stores, IsShopify)

\* the loader produced one Shopify descriptor per entry, the i-th made of the
\* trimmed i-th domain and the trimmed i-th token
PairedByPosition ==
    /\ ~configError
    /\ Len(ShopifyDescriptors) = EntryCount(env.SHOPIFY_DOMAINS)
    /\ \A i \in 1..Len(ShopifyDescriptors) :
         ShopifyDescriptors[i] =
            [type        |-> "shopify",
             domain      |-> Trimmed(Entry(env.SHOPIFY_DOMAINS, i)),
             accessToken |-> Trimmed(Entry(env.SHOPIFY_ACCESS_TOKENS, i))]

\* C10 as stated: whenever the two variables hold strings, of N and M
\* comma-separated entries, the loader fails when N /= M and produces the N
\* descriptors paired by position when N = M.
C10_ParityOfAnyStrings ==
    (sched /= "start" /\ env.SHOPIFY_DOMAINS /= Undefined
       /\ env.SHOPIFY_ACCESS_TOKENS /= Undefined) =>
        IF EntryCount(env.SHOPIFY_DOMAINS) /= EntryCount(env.SHOPIFY_ACCESS_TOKENS)
        THEN configError
        ELSE PairedByPosition

\* C10, amended: when both variables are set and non-empty, of N and M
\* comma-separated entries, the loader fails when N /= M and produces the N
\* descriptors paired by position when N = M; when either is unset or empty
\* it fails for no count and produces no Shopify descriptor.
C10_ConfigParity ==
    sched /= "start" =>
        IF Truthy(env.SHOPIFY_DOMAINS) /\ Truthy(env.SHOPIFY_ACCESS_TOKENS)
        THEN IF EntryCount(env.SHOPIFY_DOMAINS) /= EntryCount(env.SHOPIFY_ACCESS_TOKENS)
             THEN configError /\ stores = <<>>
             ELSE PairedByPosition
        ELSE ~configError /\ ShopifyDescriptors = <<>>

\* two descriptors were loaded from a domain list whose first entry starts
\* with a blank, which its descriptor does not
C10_Witness ==
    /\ sched = "fetching"
    /\ Len(ShopifyDescriptors) = 2
    /\ env.SHOPIFY_DOMAINS[1] = " "
    /\ ShopifyDescriptors[1].domain = <<"a">>
    /\ ShopifyDescriptors[2].accessToken = <<"a">>

\* C11: every store descriptor getStoresFromEnv returned has a non-empty
\* domain and a non-empty accessToken.
C11_DescriptorsNonEmpty ==
    sched /= "start" =>
        \A i \in 1..Len(stores) :
            stores[i].domain /= <<>> /\ stores[i].accessToken /= <<>>

IsMagento(store) == store.type = "magento"

\* the Magento descriptors of the loaded store list
MagentoDescriptors == SelectSeq(stores, IsMagento)

\* C12: when both Magento variables are non-empty, the list getStoresFromEnv
\* returns holds exactly one Magento descriptor, made of the two raw strings
\* (commas and blanks included), and it is the last of the list, after every
\* Shopify descriptor, which keep their configuration order; when either is
\* unset or empty the list holds no Magento descriptor.
C12_MagentoSingleDescriptor ==
    (sched /= "start" /\ ~configError) =>
        IF Truthy(env.MAGENTO_DOMAINS) /\ Truthy(env.MAGENTO_ACCESS_TOKENS)
        THEN /\ MagentoDescriptors =
                  <<[type        |-> "magento",
                     domain      |-> env.MAGENTO_DOMAINS,
                     accessToken |-> env.MAGENTO_ACCESS_TOKENS]>>
             /\ stores = ShopifyDescriptors \o MagentoDescriptors
             /\ \A i \in 1..Len(ShopifyDescriptors) :
                  ShopifyDescriptors[i].domain = Trimmed(Entry(env.SHOPIFY_DOMAINS, i))
        ELSE MagentoDescriptors = <<>> /\ stores = ShopifyDescriptors

\* two Shopify descriptors come before the one Magento descriptor, whose
\* domain holds a comma and whose token holds blanks
C12_Witness ==
    /\ sched = "fetching"
    /\ Len(stores) = 3
    /\ stores[1].type = "shopify" /\ stores[2].type = "shopify"
    /\ stores[1].domain /= stores[2].domain
    /\ stores[3] = [type |-> "magento", domain |-> <<"m", ",", "n">>,
                    accessToken |-> <<" ", "m", " ">>]

\* C13 as stated: at 2024-03-15T10:00:00.000Z the range is
\* 2024-03-13T08:00:00.000Z to 2024-03-14T07:59:59.999Z.
C13_RangeOfMarch13 ==
    (now = RunInstant /\ sched /= "start") =>
        dateRange =
            [start |-> <<"2", "0", "2", "4", "-", "0", "3", "-", "1", "3", "T",
                         "0", "8", ":", "0", "0", ":", "0", "0", ".", "0", "0", "0", "Z">>,
             end   |-> <<"2", "0", "2", "4", "-", "0", "3", "-", "1", "4", "T",
                         "0", "7", ":", "5", "9", ":", "5", "9", ".", "9", "9", "9", "Z">>]

\* C13, amended: at 2024-03-15T10:00:00.000Z the range is
\* 2024-03-14T08:00:00.000Z to 2024-03-15T07:59:59.999Z.
C13_RangeOfMarch14 ==
    (now = RunInstant /\ sched /= "start") =>
        dateRange =
            [start |-> <<"2", "0", "2", "4", "-", "0", "3", "-", "1", "4", "T",
                         "0", "8", ":", "0", "0", ":", "0", "0", ".", "0", "0", "0", "Z">>,
             end   |-> <<"2", "0", "2", "4", "-", "0", "3", "-", "1", "5", "T",
                         "0", "7", ":", "5", "9", ":", "5", "9", ".", "9", "9", "9", "Z">>]

\* scheduled() has computed its range at 2024-03-15T10:00:00.000Z
C13_Witness ==
    /\ now = [day |-> 19797, ms |-> 36000000]
    /\ sched /= "start"
    /\ Len(dateRange.start) = 24
    /\ Len(dateRange.end) = 24

\* the lines of a text: what stands between its line ends
RECURSIVE LinesFrom(_, _)
LinesFrom(text, i) ==
    LET breaks == {p \in i..Len(text) : text[p] = "\n"}
    IN  IF breaks = {} THEN <<SubSeq(text, i, Len(text))>>
        ELSE LET first == CHOOSE p \in breaks : \A q \in breaks : p <= q
             IN  <<SubSeq(text, i, first - 1)>> \o LinesFrom(text, first + 1)

Lines(text) == LinesFrom(text, 1)

\* the line says label and then the decimal numeral of n
SaysNumber(line, label, n) ==
    /\ Len(line) > Len(label)
    /\ SubSeq(line, 1, Len(label)) = label
    /\ \A p \in (Len(label) + 1)..Len(line) : IsDigit(line[p])
    /\ (line[Len(label) + 1] = "0") => Len(line) = Len(label) + 1
    /\ DigitsValue(line, Len(label) + 1, Len(line) - Len(label)) = n

\* the fixed display table: the name a key is reported under
ReportedAs(key) ==
    CASE key = <<"e", "l", "i", "q", "u", "i", "d", "-", "c", "o", "m">> ->
           <<"e", "l", "i", "q", "u", "i", "d", ".", "c", "o", "m">>
      [] key = <<"M", "i", "s", "t", "H", "u", "b">> ->
           <<"m", "i", "s", "t", "h", "u", "b", ".", "c", "o", "m">>
      [] key = <<"e", "j", "u", "i", "c", "e", "s", "-", "c", "o">> ->
           <<"e", "j", "u", "i", "c", "e", "s", ".", "c", "o">>
      [] key = <<"e", "j", "u", "i", "c", "e", "s">> ->
           <<"e", "j", "u", "i", "c", "e", "s", ".", "c", "o", "m">>
      [] key = <<"y", "a", "m", "i", "v", "a", "p", "o", "r">> ->
           <<"y", "a", "m", "i", "v", "a", "p", "o", "r">>
      [] key = <<"d", "e", "a", "l", "s", "-", "3", "0", "5">> ->
           <<"a", "l", "o", "h", "a", "s", "u", "n", "v", "a", "p", "o", "r", ".", "c", "o", "m">>
      [] key = <<"c", "a", "2", "b", "b", "f">> ->
           <<"r", "o", "d", "m", "a", "n", "9", "k", ".", "c", "o", "m">>
      [] OTHER -> key

RECURSIVE SumOfOrderCounts(_, _)
SumOfOrderCounts(storeData, n) ==
    IF n = 0 THEN 0 ELSE storeData[n].value.orderCount + SumOfOrderCounts(storeData, n - 1)

KnownDates ==
    { [day |-> 19797, y |-> 2024, m |-> 3,  d |-> 15],
      [day |-> 19723, y |-> 2024, m |-> 1,  d |-> 1],
      [day |-> 19783, y |-> 2024, m |-> 3,  d |-> 1],
      [day |-> 19417, y |-> 2023, m |-> 3,  d |-> 1],
      [day |-> 47541, y |-> 2100, m |-> 3,  d |-> 1],
      [day |-> 11017, y |-> 2000, m |-> 3,  d |-> 1],
      [day |-> 20088, y |-> 2024, m |-> 12, d |-> 31] }

LeapYear(y) == (y % 4 = 0 /\ y % 100 /= 0) \/ y % 400 = 0

MonthLength(y, m) ==
    IF m = 2 THEN (IF LeapYear(y) THEN 29 ELSE 28)
    ELSE IF m \in {4, 6, 9, 11} THEN 30 ELSE 31

\* the calendar date k days after (before, when k < 0) the date c
RECURSIVE DateAfter(_, _)
DateAfter(c, k) ==
    IF k = 0 THEN c
    ELSE IF k > 0
    THEN DateAfter(IF c.d < MonthLength(c.y, c.m) THEN [c EXCEPT !.d = @ + 1]
                   ELSE IF c.m < 12 THEN [c EXCEPT !.m = @ + 1, !.d = 1]
                   ELSE [y |-> c.y + 1, m |-> 1, d |-> 1],
                   k - 1)
    ELSE DateAfter(IF c.d > 1 THEN [c EXCEPT !.d = @ - 1]
                   ELSE IF c.m > 1 THEN [c EXCEPT !.m = @ - 1, !.d = MonthLength(c.y, c.m - 1)]
                   ELSE [y |-> c.y - 1, m |-> 12, d |-> 31],
                   k + 1)

\* the calendar date of a day number near a known date
CivilOfDay(n) ==
    LET a == CHOOSE a \in KnownDates : n - a.day \in (0 - DayWindow - 3)..(DayWindow + 3)
    IN  DateAfter([y |-> a.y, m |-> a.m, d |-> a.d], n - a.day)

\* str is the ISO timestamp of the calendar date c at h:mi:sec.ms UTC
ReadsAs(str, c, h, mi, sec, ms) ==
    /\ Len(str) = 24
    /\ str[5] = "-" /\ str[8] = "-" /\ str[11] = "T" /\ str[14] = ":"
    /\ str[17] = ":" /\ str[20] = "." /\ str[24] = "Z"
    /\ \A p \in (1..23) \ {5, 8, 11, 14, 17, 20} : IsDigit(str[p])
    /\ DigitsValue(str, 1, 4) = c.y
    /\ DigitsValue(str, 6, 2) = c.m
    /\ DigitsValue(str, 9, 2) = c.d
    /\ DigitsValue(str, 12, 2) = h
    /\ DigitsValue(str, 15, 2) = mi
    /\ DigitsValue(str, 18, 2) = sec
    /\ DigitsValue(str, 21, 3) = ms

\* the instant ms1 of day1 is not after the instant ms2 of day2
NotAfter(day1, ms1, day2, ms2) == day1 < day2 \/ (day1 = day2 /\ ms1 <= ms2)

\* the UTC-8 calendar day that contains now, as the day number of its date
LocalDay == IF now.ms >= 8 * 3600000 THEN now.day ELSE now.day - 1

\* the time of day of now - 8h
LocalTime == IF now.ms >= 8 * 3600000 THEN now.ms - 8 * 3600000 ELSE now.ms + 16 * 3600000

\* C15 as stated: start is 08:00:00.000 UTC of a day S, end is 07:59:59.999
\* UTC of the day after S (start + 24h - 1ms), S is the day before the UTC-8
\* calendar day that contains now, and now - 8h lies in
\* [start + 24h, start + 48h).
C15_ShiftedNowAfterRange ==
    sched /= "start" =>
        \E S \in {LocalDay - 2, LocalDay - 1, LocalDay} :
            /\ ReadsAs(dateRange.start, CivilOfDay(S), 8, 0, 0, 0)
            /\ ReadsAs(dateRange.end, CivilOfDay(S + 1), 7, 59, 59, 999)
            /\ S = LocalDay - 1
            /\ NotAfter(S + 1, 8 * 3600000, LocalDay, LocalTime)
            /\ ~NotAfter(S + 2, 8 * 3600000, LocalDay, LocalTime)

\* C15, amended: start is 08:00:00.000 UTC of a day S, end is 07:59:59.999
\* UTC of the day after S (start + 24h - 1ms), S is the day before the UTC-8
\* calendar day that contains now, and now itself lies in
\* [start + 24h, start + 48h).
C15_RangeIsPrecedingDay ==
    sched /= "start" =>
        \E S \in {LocalDay - 2, LocalDay - 1, LocalDay} :
            /\ ReadsAs(dateRange.start, CivilOfDay(S), 8, 0, 0, 0)
            /\ ReadsAs(dateRange.end, CivilOfDay(S + 1), 7, 59, 59, 999)
            /\ S = LocalDay - 1
            /\ NotAfter(S + 1, 8 * 3600000, now.day, now.ms)
            /\ ~NotAfter(S + 2, 8 * 3600000, now.day, now.ms)

\* the range was computed for 2024-03-01T07:59:59.999Z, one millisecond before
\* the UTC-8 day changes: the day before is in February of a leap year
C15_Witness ==
    /\ sched /= "start"
    /\ now.day = 19783 /\ now.ms = 8 * 3600000 - 1
    /\ ReadsAs(dateRange.start, [y |-> 2024, m |-> 2, d |-> 28], 8, 0, 0, 0)
    /\ ReadsAs(dateRange.end, [y |-> 2024, m |-> 2, d |-> 29], 7, 59, 59, 999)

\* how many of the first n events of a trace are in the set S
RECURSIVE CountIn(_, _, _)
CountIn(trace, n, S) ==
    IF n = 0 THEN 0
    ELSE CountIn(trace, n - 1, S) + (IF trace[n] \in S THEN 1 ELSE 0)

\* a trace read from position p on, with last the latest request, response
\* or failure before p ("none" at the start): "broken" if a request is issued
\* elsewhere than at the start or after the response to the request before
\* it, or if a response or a failure comes to no unanswered request;
\* otherwise the latest request, response or failure of the whole trace
RECURSIVE OneAtATime(_, _, _)
OneAtATime(trace, p, last) ==
    IF p > Len(trace) THEN last
    ELSE IF trace[p] = "request"
    THEN IF last = (IF p = 1 THEN "none" ELSE "response")
         THEN OneAtATime(trace, p + 1, "request") ELSE "broken"
    ELSE IF trace[p] \in {"response", "failure"}
    THEN IF last = "request" THEN OneAtATime(trace, p + 1, trace[p]) ELSE "broken"
    ELSE OneAtATime(trace, p + 1, last)

\* C16: within one store's fetch at most one page request is in flight at any
\* time (a request is in flight exactly while the fetch awaits it); for
\* Shopify the first request carries no cursor (0), request k+1 is issued
\* only after response k was received, carries the endCursor of response k,
\* and is issued only if response k had hasNextPage = true.
C16_IntraStoreSequencing ==
    \A i \in StoreIds :
        /\ \E last \in {OneAtATime(tasks[i].trace, 1, "none")} :
             /\ last \in {"request", "response", "failure"}
             /\ last = "request" <=> tasks[i].pc = "fetch"
        /\ CountIn(tasks[i].trace, Len(tasks[i].trace), {"request"}) = Len(tasks[i].requests)
        /\ stores[i].type = "shopify" =>
             /\ tasks[i].requests[1] = 0
             /\ \A k \in 1..(Len(tasks[i].requests) - 1) :
                  /\ k <= Len(tasks[i].pageInfos)
                  /\ tasks[i].pageInfos[k]
                  /\ tasks[i].requests[k + 1] = ShopifyEndCursor(tasks[i].requests[k])

\* the requests of two stores are in flight at once, one of them the third
\* request of a Shopify fetch
C16_Witness ==
    \E i, j \in StoreIds :
        /\ i /= j
        /\ tasks[i].pc = "fetch" /\ tasks[j].pc = "fetch"
        /\ stores[i].type = "shopify"
        /\ Len(tasks[i].requests) = 3
        /\ tasks[i].requests[3] = ShopifyEndCursor(ShopifyEndCursor(0))

\* from position p on, with paused saying whether the fetch paused since its
\* latest request before p: every request but the first comes after a pause
RECURSIVE PausedBetween(_, _, _)
PausedBetween(trace, p, paused) ==
    IF p > Len(trace) THEN TRUE
    ELSE IF trace[p] = "request"
    THEN (p = 1 \/ paused) /\ PausedBetween(trace, p + 1, FALSE)
    ELSE PausedBetween(trace, p + 1, paused \/ trace[p] = "pause")

\* C17: for both platforms, every two consecutive page requests of a store
\* are separated by a 500 ms pause.
C17_PauseBetweenRequests ==
    \A i \in StoreIds : PausedBetween(tasks[i].trace, 1, FALSE)

\* C18: a fetch pauses only when another page request of the store follows
\* the pause; once the fetch is over, every pause of its trace is followed
\* by a request (so no pause comes after its last request, the 20th Shopify
\* page included).
C18_PauseOnlyBeforeRequest ==
    \A i \in StoreIds :
        Settled(i) =>
            \A p \in 1..Len(tasks[i].trace) :
                tasks[i].trace[p] = "pause" =>
                    /\ p < Len(tasks[i].trace)
                    /\ tasks[i].trace[p + 1] = "request"

\* C19: a Shopify fetch that returned logged the page-limit warning exactly
\* when its 20th page still answered hasNextPage = true; a fetch that ended
\* on hasNextPage = false, on any page up to the 20th, logged none.
C19_WarningOnlyWhenPagesRemain ==
    \A i \in StoreIds :
        (stores[i].type = "shopify" /\ tasks[i].pc = "returned") =>
            (tasks[i].warned <=>
                /\ Len(tasks[i].pageInfos) = 20
                /\ tasks[i].pageInfos[20])

\* a page request of store i failed: the failure is the last event of the
\* fetch (no request follows it), every earlier request was answered with a
\* page, and the fetch threw
FailureEndsFetch(i) ==
    /\ tasks[i].pc = "threw"
    /\ tasks[i].trace[Len(tasks[i].trace)] = "failure"
    /\ CountIn(tasks[i].trace, Len(tasks[i].trace), {"failure"}) = 1
    /\ Len(tasks[i].requests) = Len(tasks[i].received) + 1

\* C20 as stated: when a page request of a store fails after k >= 0 pages, no
\* further request is issued for the store, the fetch raises, and after the
\* join the entry of the store's domain is the zero entry.
C20_FailedStoreEntryZero ==
    \A i \in StoreIds :
        tasks[i].error /= "none" =>
            /\ FailureEndsFetch(i)
            /\ Joined => MapGet(storeMetrics, stores[i].domain) = ZeroMetrics

\* C20, amended: when a page request of a store fails after k >= 0 pages, no
\* further request is issued for the store, the fetch raises, and after the
\* join the entry of the store's domain is the zero entry whatever the earlier
\* pages held, provided no other store has the same domain (otherwise it is
\* the outcome of one of the stores of that domain).
C20_FailureDiscardsPartialData ==
    \A i \in StoreIds :
        tasks[i].error /= "none" =>
            /\ FailureEndsFetch(i)
            /\ Joined =>
                 /\ MapHas(storeMetrics, stores[i].domain)
                 /\ SameDomain(i) = {i} =>
                      MapGet(storeMetrics, stores[i].domain) = ZeroMetrics
                 /\ \E j \in SameDomain(i) :
                      MapGet(storeMetrics, stores[i].domain) = Outcome(j)

\* a Shopify fetch failed on its third request and a Magento fetch on its
\* second, both with orders collected before, and both entries are zero
C20_Witness ==
    /\ Joined
    /\ \E i, j \in StoreIds :
         /\ stores[i].type = "shopify" /\ stores[j].type = "magento"
         /\ tasks[i].error /= "none" /\ tasks[j].error /= "none"
         /\ Len(tasks[i].received) = 2 /\ Len(tasks[i].allOrders) > 0
         /\ Len(tasks[j].received) = 1 /\ Len(tasks[j].allOrders) > 0
         /\ MapGet(storeMetrics, stores[i].domain) = ZeroMetrics
         /\ MapGet(storeMetrics, stores[j].domain) = ZeroMetrics

\* the UTC calendar date an ISO timestamp begins with, YYYY-MM-DD
CalendarDate(iso) == SubSeq(iso, 1, 10)

\* C21: on every page request of a Magento fetch the lower bound of the
\* created_at filter is the UTC calendar date of dateRange.start at 00:00:00
\* and the upper bound is that same date at 23:59:59: both bounds share one
\* calendar date, dateRange.end has no part in them, and all page requests
\* of the fetch carry the same bounds.
C21_MagentoFilterWindow ==
    \A i \in StoreIds :
        stores[i].type = "magento" =>
            /\ Len(tasks[i].filters) = Len(tasks[i].requests)
            /\ \A k \in 1..Len(tasks[i].filters) :
                 /\ tasks[i].filters[k].startDate =
                      CalendarDate(dateRange.start) \o <<" ", "0", "0", ":", "0", "0", ":", "0", "0">>
                 /\ tasks[i].filters[k].endDate =
                      CalendarDate(dateRange.start) \o <<" ", "2", "3", ":", "5", "9", ":", "5", "9">>
                 /\ CalendarDate(tasks[i].filters[k].startDate) =
                      CalendarDate(tasks[i].filters[k].endDate)
                 /\ tasks[i].filters[k] = tasks[i].filters[1]

\* a Magento fetch issued three page requests for the range that starts on
\* 2024-02-29 and ends on 2024-03-01, all of them bounded by 2024-02-29
C21_Witness ==
    \E i \in StoreIds :
        /\ stores[i].type = "magento"
        /\ Len(tasks[i].requests) = 3
        /\ CalendarDate(dateRange.start) = <<"2", "0", "2", "4", "-", "0", "2", "-", "2", "9">>
        /\ CalendarDate(dateRange.end) = <<"2", "0", "2", "4", "-", "0", "3", "-", "0", "1">>
        /\ tasks[i].filters[3].endDate =
             <<"2", "0", "2", "4", "-", "0", "2", "-", "2", "9", " ", "2", "3", ":", "5", "9", ":", "5", "9">>

====
